---- MODULE Spec2Model ----
(***************************************************************************)
(* Model of the deHATEr hate-speech filter: the age policy resolver        *)
(* (age_policy.py), device selection and the classifier engine with its    *)
(* downgrade-to-cpu failure handling (predict.py).                         *)
(*                                                                         *)
(* Conventions.                                                            *)
(*  - A Python string is a sequence of one-character strings, so that      *)
(*    str.lower() and int() are computed character by character.          *)
(*  - An Optional value is a record [given, s]: None is [given |-> FALSE]. *)
(*  - A threshold or a score is an integer number of hundredths.           *)
(*  - The text of a RuntimeError is the set of the failure tokens that     *)
(*    str(exc).lower() contains; the code only ever tests it with "in".    *)
(***************************************************************************)
EXTENDS Integers, Sequences, FiniteSets, TLC

\* ------------------------------------------------------------------ bounds
MaxPolicies == 3
MaxIntAge == 19
MaxNegAge == 2
MaxTokens == 1
NumCalls == 2
MaxCapacity == 12

\* ------------------------------------------------------------ Python strings
UpperChars == <<"A", "C", "D", "G", "I", "L", "M", "P", "R", "S", "T", "U">>
LowerChars == <<"a", "c", "d", "g", "i", "l", "m", "p", "r", "s", "t", "u">>

\* str.lower() on one character
LowerChar(ch) ==
    IF \E i \in DOMAIN UpperChars : UpperChars[i] = ch
    THEN LowerChars[CHOOSE i \in DOMAIN UpperChars : UpperChars[i] = ch]
    ELSE ch

\* str.lower()
Lower(s) == [i \in DOMAIN s |-> LowerChar(s[i])]

None == [given |-> FALSE, s |-> <<>>]
Str(s) == [given |-> TRUE, s |-> s]

\* Python truthiness of an Optional[str]: None and "" are falsy
Truthy(opt) == opt.given /\ Len(opt.s) > 0

\* ------------------------------------------------------------ device selection
Devices == {"cpu", "cuda", "mps", "dml"}

\* What the host reports: torch.cuda.is_available(), the outcome of
\* torch.zeros(1).to("cuda"), the mps backend being present and available, the
\* outcome of torch.zeros(1).to("mps"), torch_directml having been imported,
\* and the outcome of torch_directml.device().
Hosts ==
    [cudaAvail : BOOLEAN, cudaProbeOk : BOOLEAN,
     mpsAvail : BOOLEAN, mpsProbeOk : BOOLEAN,
     dmlInstalled : BOOLEAN, dmlDeviceOk : BOOLEAN]

Selected(d) == [dev |-> d, err |-> "none"]
SelectFails(e) == [dev |-> "none", err |-> e]

HasDirectml(hw) == hw.dmlInstalled /\ hw.dmlDeviceOk

\* ExplicitCuda trusting the capability flag without the allocation probe
ExplicitCuda_NoProbe(hw) ==
    IF hw.cudaAvail THEN Selected("cuda") ELSE Selected("cpu")

\* the branch for "cuda" and "gpu"
ExplicitCuda(hw) ==
    IF hw.cudaAvail
    THEN IF hw.cudaProbeOk THEN Selected("cuda") ELSE Selected("cpu")
    ELSE Selected("cpu")

\* ExplicitMps falling back to cpu when the backend is unavailable
ExplicitMps_CpuWhenUnavailable(hw) ==
    IF hw.mpsAvail
    THEN IF hw.mpsProbeOk THEN Selected("mps") ELSE Selected("cpu")
    ELSE Selected("cpu")

\* the branch for "mps"
ExplicitMps(hw) ==
    IF hw.mpsAvail
    THEN IF hw.mpsProbeOk THEN Selected("mps") ELSE Selected("cpu")
    ELSE SelectFails("RuntimeError")

\* the branch for "dml" and "directml"
ExplicitDml(hw) ==
    IF HasDirectml(hw) THEN Selected("dml") ELSE SelectFails("RuntimeError")

\* NormalizeChoice without the call of lower()
NormalizeChoice_CaseSensitive(s) == s

NormalizeChoice(s) == Lower(s)

\* the body of "if explicit:"
SelectExplicit(s, hw) ==
    LET choice == NormalizeChoice(s) IN
    IF choice \in {<<"c", "u", "d", "a">>, <<"g", "p", "u">>} THEN ExplicitCuda(hw)
    ELSE IF choice = <<"m", "p", "s">> THEN ExplicitMps(hw)
    ELSE IF choice \in {<<"d", "m", "l">>,
                        <<"d", "i", "r", "e", "c", "t", "m", "l">>} THEN ExplicitDml(hw)
    ELSE IF choice = <<"c", "p", "u">> THEN Selected("cpu")
    ELSE SelectFails("ValueError")

\* SelectAuto trying mps before cuda
SelectAuto_MpsFirst(hw) ==
    IF hw.mpsAvail /\ hw.mpsProbeOk THEN Selected("mps")
    ELSE IF hw.cudaAvail /\ hw.cudaProbeOk THEN Selected("cuda")
    ELSE IF HasDirectml(hw) THEN Selected("dml")
    ELSE Selected("cpu")

\* the auto-detect tail of _select_device
SelectAuto(hw) ==
    IF hw.cudaAvail /\ hw.cudaProbeOk THEN Selected("cuda")
    ELSE IF hw.mpsAvail /\ hw.mpsProbeOk THEN Selected("mps")
    ELSE IF HasDirectml(hw) THEN Selected("dml")
    ELSE Selected("cpu")

IsExplicit(explicit) == Truthy(explicit)

_select_device(explicit, hw) ==
    IF IsExplicit(explicit) THEN SelectExplicit(explicit.s, hw) ELSE SelectAuto(hw)

\* api_server._resolve_device: MODEL_DEVICE unset or empty gives None
_resolve_device(deviceEnv) == IF Truthy(deviceEnv) THEN deviceEnv ELSE None

\* The device arguments tried: None, "", and spellings of the four devices, of
\* the two aliases and of two names outside the set.
DeviceArgs ==
    {None, Str(<<>>),
     Str(<<"c", "u", "d", "a">>), Str(<<"C", "U", "D", "A">>), Str(<<"G", "p", "u">>),
     Str(<<"m", "p", "s">>), Str(<<"M", "P", "S">>),
     Str(<<"d", "m", "l">>), Str(<<"D", "i", "r", "e", "c", "t", "M", "L">>),
     Str(<<"c", "p", "u">>), Str(<<"C", "p", "u">>),
     Str(<<"t", "p", "u">>), Str(<<"a", "u", "t", "o">>)}

\* ------------------------------------------------------------ age policies
AgePolicy(m, t, u) == [max_age |-> m, threshold |-> t, allow_unblock |-> u]

\* the default table with the thresholds of its first two buckets exchanged
_DEFAULT_POLICIES_Exchanged ==
    << AgePolicy(12, 35, FALSE), AgePolicy(17, 25, TRUE), AgePolicy(200, 55, TRUE) >>

_DEFAULT_POLICIES ==
    << AgePolicy(12, 25, FALSE), AgePolicy(17, 35, TRUE), AgePolicy(200, 55, TRUE) >>

\* An age as a caller can pass it: None, an int, a float (n is the number of
\* halves, so n = -1 is -0.5), a str (s), or an object int() rejects.
AgeNone == [kind |-> "none", n |-> 0, s |-> <<>>]
AgeInt(n) == [kind |-> "int", n |-> n, s |-> <<>>]
AgeFloat(n) == [kind |-> "float", n |-> n, s |-> <<>>]
AgeStr(s) == [kind |-> "str", n |-> 0, s |-> s]
AgeObj == [kind |-> "obj", n |-> 0, s |-> <<>>]

Digits == <<"0", "1", "2", "3", "4", "5", "6", "7", "8", "9">>
IsDigit(ch) == \E i \in DOMAIN Digits : Digits[i] = ch
DigitValue(ch) == (CHOOSE i \in DOMAIN Digits : Digits[i] = ch) - 1

RECURSIVE DigitsValue(_)
DigitsValue(s) ==
    IF s = <<>> THEN 0
    ELSE 10 * DigitsValue(SubSeq(s, 1, Len(s) - 1)) + DigitValue(s[Len(s)])

Converted(v) == [ok |-> TRUE, v |-> v]
NotConverted == [ok |-> FALSE, v |-> 0]

\* int(str): an optional sign, then one or more digits; anything else raises
\* ValueError
IntOfStr(s) ==
    LET signed == Len(s) > 0 /\ s[1] \in {"-", "+"}
        body == IF signed THEN SubSeq(s, 2, Len(s)) ELSE s
    IN  IF body = <<>> \/ \E i \in DOMAIN body : ~IsDigit(body[i])
        THEN NotConverted
        ELSE IF signed /\ s[1] = "-"
             THEN Converted(0 - DigitsValue(body))
             ELSE Converted(DigitsValue(body))

\* int(float) truncates toward zero
IntOfFloat(halves) ==
    IF halves >= 0 THEN Converted(halves \div 2) ELSE Converted(0 - ((0 - halves) \div 2))

\* int(age) inside the try block: NotConverted stands for TypeError or ValueError
IntOf(age) ==
    CASE age.kind = "int" -> Converted(age.n)
      [] age.kind = "float" -> IntOfFloat(age.n)
      [] age.kind = "str" -> IntOfStr(age.s)
      [] OTHER -> NotConverted

\* Scan with an exclusive upper bound
Scan_StrictBound(policies, integer_age) ==
    IF \E i \in DOMAIN policies : integer_age < policies[i].max_age
    THEN policies[CHOOSE i \in DOMAIN policies :
                     /\ integer_age < policies[i].max_age
                     /\ \A j \in 1..(i - 1) : ~(integer_age < policies[j].max_age)]
    ELSE policies[Len(policies)]

\* the for loop of resolve and the return after it
Scan(policies, integer_age) ==
    IF \E i \in DOMAIN policies : integer_age <= policies[i].max_age
    THEN policies[CHOOSE i \in DOMAIN policies :
                     /\ integer_age <= policies[i].max_age
                     /\ \A j \in 1..(i - 1) : ~(integer_age <= policies[j].max_age)]
    ELSE policies[Len(policies)]

\* Resolve sending a negative age to the last policy
Resolve_NegativeToLast(policies, age) ==
    IF age.kind = "none" THEN policies[1]
    ELSE LET c == IntOf(age) IN
         IF ~c.ok THEN policies[1]
         ELSE IF c.v < 0 THEN policies[Len(policies)]
         ELSE Scan(policies, c.v)

\* AgePolicyResolver.resolve
Resolve(policies, age) ==
    IF age.kind = "none" THEN policies[1]
    ELSE LET c == IntOf(age) IN
         IF ~c.ok THEN policies[1]
         ELSE IF c.v < 0 THEN policies[1]
         ELSE Scan(policies, c.v)

\* AgePolicyResolver.__init__: an empty or missing table gives the default one
NewResolver(policies) == IF policies = <<>> THEN _DEFAULT_POLICIES ELSE policies

\* resolve_policy, through the shared resolver instance
resolve_policy(age) == Resolve(NewResolver(<<>>), age)

\* ------------------------------------------------------------ failure texts
Tokens == {"hip error", "invalid device function", "cuda", "cublas", "cudnn", "directml"}

\* str(exc).lower() of a RuntimeError, as the set of the tokens that occur in it
Messages == {m \in SUBSET Tokens : Cardinality(m) <= MaxTokens}

\* RecognizeAtPlacement with the CUDA family recognized on any device
RecognizeAtPlacement_CudaOnAnyDevice(device, message) ==
    IF "hip error" \in message \/ "invalid device function" \in message THEN "hip"
    ELSE IF \E token \in {"cuda", "cublas", "cudnn"} : token \in message THEN "cuda"
    ELSE IF device = "dml" /\ "directml" \in message THEN "dml"
    ELSE "none"

\* the if/elif chain of the except block in __init__; "none" is the final raise
RecognizeAtPlacement(device, message) ==
    IF "hip error" \in message \/ "invalid device function" \in message THEN "hip"
    ELSE IF device = "cuda" /\ (\E token \in {"cuda", "cublas", "cudnn"} : token \in message)
         THEN "cuda"
    ELSE IF device = "dml" /\ "directml" \in message THEN "dml"
    ELSE "none"

\* RecognizeAtInference without the "invalid device function" test
RecognizeAtInference_NoInvalidKernel(device, message) ==
    IF "hip error" \in message THEN "hip"
    ELSE IF device = "cuda" /\ (\E token \in {"cuda", "cublas", "cudnn"} : token \in message)
         THEN "cuda"
    ELSE IF "directml" \in message /\ device = "dml" THEN "dml"
    ELSE "none"

\* RecognizeAtInference taking the CUDA branch on any device
RecognizeAtInference_AnyDevice(device, message) ==
    IF "hip error" \in message \/ "invalid device function" \in message THEN "hip"
    ELSE IF \E token \in {"cuda", "cublas", "cudnn"} : token \in message THEN "cuda"
    ELSE IF "directml" \in message /\ device = "dml" THEN "dml"
    ELSE "none"

\* the if/elif chain of the except block in _score_text; "none" is the final raise
RecognizeAtInference(device, message) ==
    IF "hip error" \in message \/ "invalid device function" \in message THEN "hip"
    ELSE IF device = "cuda" /\ (\E token \in {"cuda", "cublas", "cudnn"} : token \in message)
         THEN "cuda"
    ELSE IF "directml" \in message /\ device = "dml" THEN "dml"
    ELSE "none"

\* Downgrade sending the HIP branch to cuda
Downgrade_ToCuda(branch, dmlHandle) ==
    [device |-> IF branch = "hip" THEN "cuda" ELSE "cpu",
     dmlHandle |-> IF branch = "dml" THEN FALSE ELSE dmlHandle]

\* the assignments a recognized branch makes to self.device and self._dml_device
Downgrade(branch, dmlHandle) ==
    [device |-> "cpu", dmlHandle |-> IF branch = "dml" THEN FALSE ELSE dmlHandle]

\* target_device of _score_text; a handle is named by the device it stands for,
\* and tensor.to(None) leaves the tensor where the tokenizer made it, on cpu
TargetDevice(device, dmlHandle) ==
    IF device = "dml" THEN (IF dmlHandle THEN "dml" ELSE "cpu") ELSE device

\* the device the except block re-encodes for
ReEncodeDevice(device) == device

\* _autocast_context: TRUE is torch.autocast(cuda, float16), FALSE is nullcontext()
AutocastContext(device) == device = "cuda"

\* self.model(**encoded) can return only with the inputs where the weights are
ForwardMaySucceed(enc, weights) == enc = weights

\* and it can raise on an accelerator, on a cpu that is itself failing, and
\* always when the inputs are not where the weights are
ForwardMayFail(enc, weights, faulty) == enc # weights \/ weights # "cpu" \/ faulty

\* self.model.to(target) can raise on an accelerator or on a failing cpu
MoveMayFail(target, faulty) == target # "cpu" \/ faulty

\* a length read from the tokenizer or the config: an int, or something else
\* (None, a float, a missing attribute of the config)
IntLen(n) == [isInt |-> TRUE, v |-> n]
NotIntLen == [isInt |-> FALSE, v |-> 0]

Min(a, b) == IF a <= b THEN a ELSE b
Max(a, b) == IF a >= b THEN a ELSE b

\* max_len after the first test: tokenizer.model_max_length, or 512 when it is
\* not an int, not positive or above 4096
TokenizerLength(tokLen) ==
    IF ~tokLen.isInt \/ tokLen.v <= 0 \/ tokLen.v > 4096 THEN 512 ELSE tokLen.v

\* max_len after the second test: at most max_position_embeddings - 2 when
\* that is an int above 2
RoomForSpecialTokens(max_len, capacity) ==
    IF capacity.isInt /\ capacity.v > 2 THEN Min(max_len, capacity.v - 2) ELSE max_len

\* self.max_length = max(max_len, 8)
MaxLength(tokLen, capacity) ==
    Max(RoomForSpecialTokens(TokenizerLength(tokLen), capacity), 8)

\* the scores (hundredths) and the ages classify is called with
Scores == {25, 30, 60}
ClassifyAges == {AgeNone, AgeInt(10), AgeInt(16), AgeInt(40)}

\* ShouldBlock with a strict comparison
ShouldBlock_Strict(score, policy) == score > policy.threshold

\* should_block of classify
ShouldBlock(score, policy) == score >= policy.threshold

\* the dict classify returns
ClassifyResult(score, age) ==
    LET policy == resolve_policy(age) IN
    [score |-> score, should_block |-> ShouldBlock(score, policy), age_policy |-> policy,
     age |-> age]

\* ------------------------------------------------------------ state
VARIABLES
    explicit,      \* the device argument the engine is constructed with
    hw,            \* what the host reports (a member of Hosts)
    modelExists,   \* whether the model directory exists
    modelCfg,      \* the lengths the tokenizer and the model config report
    cpuFaulty,     \* whether work whose target is the cpu can fail as well
    serial,        \* TRUE when the caller runs one classify call at a time
    engine,        \* "new", "ready" (constructed) or "failed" (__init__ raised)
    ctorError,     \* the exception __init__ raised, or "none"
    selected,      \* what _select_device returned to __init__, or "none"
    device,        \* self.device
    dmlHandle,     \* whether self._dml_device is set
    weightsOn,     \* the device the model weights are on
    max_length,    \* self.max_length, 0 while it is not set
    placement,     \* the RuntimeError text the except block of __init__ holds
    ctorBranch,    \* the branch that except block took, or "none"
    calls,         \* the classify calls: position and locals of each
    policies,      \* the table of the resolver under test
    resolved       \* what its last resolve call was given and returned

vars == << explicit, hw, modelExists, modelCfg, cpuFaulty, serial, engine, ctorError,
           selected, device, dmlHandle, weightsOn, max_length, placement, ctorBranch,
           calls, policies, resolved >>

hostVars == << explicit, hw, modelExists, modelCfg, cpuFaulty, serial >>
engineVars == << engine, ctorError, selected, device, dmlHandle, weightsOn, max_length,
                 placement, ctorBranch >>
resolverVars == << policies, resolved >>

Calls == 1..NumCalls

\* a call that has not started: no inputs encoded, no pass run, nothing raised
\* or returned. passes lists the forward passes run, err the RuntimeError text
\* that left classify, result the dict returned, dev0 and dml0 the device state
\* the call started in.
IdleCall ==
    [pc |-> "idle", enc |-> "none", outerCast |-> FALSE, fail |-> <<>>, branch |-> "none",
     passes |-> <<>>, err |-> <<>>, result |-> <<>>, dev0 |-> "none", dml0 |-> FALSE]

Pass(c, innerCast, ok) ==
    [enc |-> calls[c].enc, weights |-> weightsOn, device |-> device,
     cast |-> calls[c].outerCast \/ innerCast, ok |-> ok]

InFlight(c) == calls[c].pc \notin {"idle"}

\* ------------------------------------------------------------ construction
EngineInit ==
    /\ engine = "new"
    /\ ctorError = "none"
    /\ selected = "none"
    /\ device = "none"
    /\ dmlHandle = FALSE
    /\ weightsOn = "none"
    /\ max_length = 0
    /\ placement = <<>>
    /\ ctorBranch = "none"
    /\ calls = [c \in Calls |-> IdleCall]

ResolverIdle ==
    /\ policies = _DEFAULT_POLICIES
    /\ resolved = <<>>

\* __init__ raising exc before the placement; loaded tells whether
\* from_pretrained had run
CtorRaises(exc, sel, loaded) ==
    /\ engine' = "failed"
    /\ ctorError' = exc
    /\ selected' = sel
    /\ weightsOn' = IF loaded THEN "cpu" ELSE "none"
    /\ UNCHANGED << device, dmlHandle, placement >>

CtorReturns(sel, dev, handle, weights) ==
    /\ engine' = "ready"
    /\ ctorError' = "none"
    /\ selected' = sel
    /\ device' = dev
    /\ dmlHandle' = handle
    /\ weightsOn' = weights
    /\ UNCHANGED placement

\* the placement raised message: __init__ is in its except block, with
\* self.device set and self._dml_device set or not (handle)
CtorCatches(sel, message, handle) ==
    /\ engine' = "placing"
    /\ placement' = << message >>
    /\ selected' = sel
    /\ device' = sel
    /\ dmlHandle' = handle
    /\ weightsOn' = "cpu"
    /\ UNCHANGED ctorError

\* ModelMissing that never finds the directory missing
ModelMissing_Never(exists) == FALSE

\* if not model_path.exists()
ModelMissing(exists) == ~exists

\* TransformerAgeAwareClassifier.__init__ up to the end of its try block
Construct ==
    /\ engine = "new"
    /\ IF ModelMissing(modelExists)
       THEN /\ CtorRaises("FileNotFoundError", "none", FALSE)
            /\ UNCHANGED max_length
       ELSE /\ max_length' = MaxLength(modelCfg.tokLen, modelCfg.capacity)
            /\ LET sel == _select_device(explicit, hw) IN
               IF sel.err # "none"
               THEN CtorRaises(sel.err, "none", TRUE)
               ELSE \/ CtorReturns(sel.dev, sel.dev, sel.dev = "dml", sel.dev)
                    \/ /\ MoveMayFail(sel.dev, cpuFaulty)
                       /\ \E message \in Messages :
                             \E handle \in {h \in BOOLEAN : h => sel.dev = "dml"} :
                                CtorCatches(sel.dev, message, handle)
    /\ UNCHANGED << ctorBranch, hostVars, calls, resolverVars >>

\* the except block of __init__: re-raise, or downgrade and place on cpu
HandlePlacement ==
    /\ engine = "placing"
    /\ LET branch == RecognizeAtPlacement(device, placement[1]) IN
       IF branch = "none"
       THEN /\ engine' = "failed"
            /\ ctorError' = "RuntimeError"
            /\ UNCHANGED << device, dmlHandle, weightsOn, ctorBranch >>
       ELSE /\ device' = Downgrade(branch, dmlHandle).device
            /\ dmlHandle' = Downgrade(branch, dmlHandle).dmlHandle
            /\ ctorBranch' = branch
            /\ \/ /\ engine' = "ready"
                  /\ weightsOn' = Downgrade(branch, dmlHandle).device
                  /\ UNCHANGED ctorError
               \/ /\ MoveMayFail(Downgrade(branch, dmlHandle).device, cpuFaulty)
                  /\ engine' = "failed"
                  /\ ctorError' = "RuntimeError"
                  /\ UNCHANGED weightsOn
    /\ placement' = <<>>
    /\ UNCHANGED << selected, max_length, hostVars, calls, resolverVars >>

\* ------------------------------------------------------------ classify
Update(c, next) == calls' = [calls EXCEPT ![c] = next]

\* the start of _score_text: tokenize and move the tensors to target_device
StartCall(c) ==
    Update(c, [IdleCall EXCEPT !.pc = "encoded",
                               !.enc = TargetDevice(device, dmlHandle),
                               !.dev0 = device,
                               !.dml0 = dmlHandle])

\* classify called on a constructed engine
Encode(c) ==
    /\ engine = "ready"
    /\ calls[c].pc = "idle"
    /\ serial => \A o \in Calls : ~InFlight(o)
    /\ StartCall(c)
    /\ UNCHANGED << hostVars, engineVars, resolverVars >>

\* with torch.no_grad(), _autocast_context(self.device):
EnterContext(c) ==
    /\ calls[c].pc = "encoded"
    /\ Update(c, [calls[c] EXCEPT !.pc = "inctx", !.outerCast = AutocastContext(device)])
    /\ UNCHANGED << hostVars, engineVars, resolverVars >>

\* a forward pass that returns logits, and the rest of classify after it
Returns(c, innerCast) ==
    /\ ForwardMaySucceed(calls[c].enc, weightsOn)
    /\ \E score \in Scores : \E age \in ClassifyAges :
          Update(c, [calls[c] EXCEPT !.pc = "returned",
                                     !.passes = Append(@, Pass(c, innerCast, TRUE)),
                                     !.result = << ClassifyResult(score, age) >>])

\* logits = self.model(**encoded).logits inside the try
Forward(c) ==
    /\ calls[c].pc = "inctx"
    /\ \/ Returns(c, FALSE)
       \/ /\ ForwardMayFail(calls[c].enc, weightsOn, cpuFaulty)
          /\ \E message \in Messages :
                Update(c, [calls[c] EXCEPT !.pc = "caught",
                                           !.passes = Append(@, Pass(c, FALSE, FALSE)),
                                           !.fail = << message >>])
    /\ UNCHANGED << hostVars, engineVars, resolverVars >>

\* except RuntimeError: classify the text, then raise or downgrade
Handle(c) ==
    /\ calls[c].pc = "caught"
    /\ LET branch == RecognizeAtInference(device, calls[c].fail[1]) IN
       IF branch = "none"
       THEN /\ Update(c, [calls[c] EXCEPT !.pc = "raised", !.err = calls[c].fail])
            /\ UNCHANGED << device, dmlHandle >>
       ELSE /\ device' = Downgrade(branch, dmlHandle).device
            /\ dmlHandle' = Downgrade(branch, dmlHandle).dmlHandle
            /\ Update(c, [calls[c] EXCEPT !.pc = "downgraded", !.branch = branch])
    /\ UNCHANGED << hostVars, engine, ctorError, selected, weightsOn, max_length, placement,
                    ctorBranch, resolverVars >>

\* self.model.to(self.device) and the re-encoding of the inputs
MoveToCpu(c) ==
    /\ calls[c].pc = "downgraded"
    /\ \/ /\ weightsOn' = device
          /\ Update(c, [calls[c] EXCEPT !.pc = "retry", !.enc = ReEncodeDevice(device)])
       \/ /\ MoveMayFail(device, cpuFaulty)
          /\ \E message \in Messages :
                Update(c, [calls[c] EXCEPT !.pc = "raised", !.err = << message >>])
          /\ UNCHANGED weightsOn
    /\ UNCHANGED << hostVars, engine, ctorError, selected, device, dmlHandle, max_length,
                    placement, ctorBranch, resolverVars >>

\* the second self.model(**encoded).logits, inside the except block
Retry(c) ==
    /\ calls[c].pc = "retry"
    /\ \/ Returns(c, AutocastContext(device))
       \/ /\ ForwardMayFail(calls[c].enc, weightsOn, cpuFaulty)
          /\ \E message \in Messages :
                Update(c, [calls[c] EXCEPT
                              !.pc = "raised",
                              !.passes = Append(@, Pass(c, AutocastContext(device), FALSE)),
                              !.err = << message >>])
    /\ UNCHANGED << hostVars, engineVars, resolverVars >>

\* the caller has taken the result or the exception
Finish(c) ==
    /\ calls[c].pc \in {"returned", "raised", "unavailable"}
    /\ Update(c, IdleCall)
    /\ UNCHANGED << hostVars, engineVars, resolverVars >>

\* ------------------------------------------------------------ HTTP layer
\* _resolve_model_path: the path, or the exception it raises
_resolve_model_path(exists) == IF exists THEN "path" ELSE "FileNotFoundError"

\* the startup hook: app.state.classifier is assigned only when the
\* constructor returns
_load_model ==
    IF _resolve_model_path(modelExists) = "FileNotFoundError"
    THEN /\ engine = "new"
         /\ CtorRaises("FileNotFoundError", "none", FALSE)
         /\ UNCHANGED << max_length, ctorBranch, hostVars, calls, resolverVars >>
    ELSE Construct

\* ClassifierLoaded that takes any engine for a loaded classifier
ClassifierLoaded_Always(e) == TRUE

\* classifier is not None
ClassifierLoaded(e) == e = "ready"

\* the predict handler up to the call of classify: 503 when no classifier
\* is loaded
predict(c) ==
    /\ calls[c].pc = "idle"
    /\ serial => \A o \in Calls : ~InFlight(o)
    /\ IF ClassifierLoaded(engine)
       THEN StartCall(c)
       ELSE Update(c, [IdleCall EXCEPT !.pc = "unavailable"])
    /\ UNCHANGED << hostVars, engineVars, resolverVars >>

\* the status of the answer to a request whose handler has finished
StatusCode(c) ==
    IF calls[c].pc = "unavailable" THEN 503
    ELSE IF calls[c].pc = "raised" THEN 500
    ELSE IF calls[c].pc = "returned" THEN 200
    ELSE 0

\* the values of MODEL_DEVICE the server is started with
ServerEnvs == {None, Str(<<>>), Str(<<"c", "p", "u">>)}

\* ------------------------------------------------------------ resolver calls
AgeBounds == {0, 5, 12, 17}
Thresholds == {25, 35, 55}

Sorted(t) ==
    \A i \in 1..(Len(t) - 1) :
        /\ t[i].max_age < t[i + 1].max_age
        /\ t[i].threshold <= t[i + 1].threshold

\* the tables a resolver is constructed with: empty (the default table is
\* used), or ascending in max_age as the data model requires
Tables ==
    {<<>>} \cup
    {t \in UNION {[1..n -> {AgePolicy(m, th, th > 25) : m \in AgeBounds, th \in Thresholds}] :
                     n \in 1..MaxPolicies} : Sorted(t)}

IntAges ==
    ((0 - MaxNegAge)..MaxIntAge) \cup
    {_DEFAULT_POLICIES[i].max_age + d : i \in DOMAIN _DEFAULT_POLICIES, d \in {0, 1}}

AgeInputs ==
    {AgeNone, AgeObj}
    \cup {AgeInt(n) : n \in IntAges}
    \cup {AgeFloat(n) : n \in {-3, -1, 1, 25, 35}}
    \cup {AgeStr(s) : s \in {<<>>, <<"a", "b">>, <<"1", "x">>, <<"-">>, <<"7">>, <<"1", "3">>,
                            <<"-", "3">>, <<"+", "1", "8">>}}

\* one call of resolve; resolved keeps the last two calls
Resolving(age) ==
    /\ resolved' = (IF resolved = <<>> THEN <<>> ELSE << resolved[Len(resolved)] >>)
                       \o << [age |-> age, policy |-> Resolve(policies, age)] >>
    /\ UNCHANGED << hostVars, engineVars, calls, policies >>

ResolveCall == \E age \in AgeInputs : Resolving(age)

\* ------------------------------------------------------------ specifications
\* a tokenizer of 512 tokens on a model with 514 positions
TypicalCfg == [tokLen |-> IntLen(512), capacity |-> IntLen(514)]

HostInit ==
    /\ explicit \in DeviceArgs \cup {_resolve_device(e) : e \in DeviceArgs}
    /\ hw \in Hosts
    /\ modelExists \in BOOLEAN
    /\ modelCfg = TypicalCfg
    /\ cpuFaulty \in BOOLEAN

\* one engine used by one caller, a call at a time
Init ==
    /\ HostInit
    /\ serial = TRUE
    /\ EngineInit
    /\ ResolverIdle

Next ==
    \/ Construct
    \/ HandlePlacement
    \/ \E c \in Calls : Encode(c)
    \/ \E c \in Calls : EnterContext(c)
    \/ \E c \in Calls : Forward(c)
    \/ \E c \in Calls : Handle(c)
    \/ \E c \in Calls : MoveToCpu(c)
    \/ \E c \in Calls : Retry(c)
    \/ \E c \in Calls : Finish(c)

Spec == Init /\ [][Next]_vars

\* one engine shared by the request threads of the server, on a host whose
\* accelerators pass their probes and whose cpu works
InitConcurrent ==
    /\ explicit = None
    /\ hw \in {h \in Hosts : h.cudaProbeOk /\ h.mpsProbeOk /\ h.dmlDeviceOk}
    /\ modelExists = TRUE
    /\ modelCfg = TypicalCfg
    /\ cpuFaulty = FALSE
    /\ serial = FALSE
    /\ EngineInit
    /\ ResolverIdle

SpecConcurrent == InitConcurrent /\ [][Next]_vars

\* the server: requests handled one at a time, before, during and after
\* the startup hook
InitServer ==
    /\ explicit \in {_resolve_device(e) : e \in ServerEnvs}
    /\ hw \in Hosts
    /\ modelExists \in BOOLEAN
    /\ modelCfg = TypicalCfg
    /\ cpuFaulty \in BOOLEAN
    /\ serial = TRUE
    /\ EngineInit
    /\ ResolverIdle

NextServer ==
    \/ _load_model
    \/ HandlePlacement
    \/ \E c \in Calls : predict(c)
    \/ \E c \in Calls : EnterContext(c)
    \/ \E c \in Calls : Forward(c)
    \/ \E c \in Calls : Handle(c)
    \/ \E c \in Calls : MoveToCpu(c)
    \/ \E c \in Calls : Retry(c)
    \/ \E c \in Calls : Finish(c)

SpecServer == InitServer /\ [][NextServer]_vars

\* what tokenizer.model_max_length can be: not an int, non-positive, small,
\* usual, the largest accepted, and too large
TokenizerLengths ==
    {NotIntLen} \cup {IntLen(n) : n \in {-1, 0, 1, 7, 8, 9, 512, 4096, 4097}}

\* what config.max_position_embeddings can be: absent, small, usual
Capacities == {NotIntLen} \cup {IntLen(n) : n \in 0..MaxCapacity} \cup {IntLen(514)}

\* construction on a cpu host, for every tokenizer and model config
InitLength ==
    /\ explicit \in {None, Str(<<"c", "p", "u">>)}
    /\ hw \in {h \in Hosts : \A f \in DOMAIN h : ~h[f]}
    /\ modelExists = TRUE
    /\ modelCfg \in [tokLen : TokenizerLengths, capacity : Capacities]
    /\ cpuFaulty = FALSE
    /\ serial = TRUE
    /\ EngineInit
    /\ ResolverIdle

NextLength == Construct

SpecLength == InitLength /\ [][NextLength]_vars

\* a resolver on its own, with any table
InitResolver ==
    /\ explicit = None
    /\ hw \in {h \in Hosts : \A f \in DOMAIN h : ~h[f]}
    /\ modelExists = TRUE
    /\ modelCfg = TypicalCfg
    /\ cpuFaulty = FALSE
    /\ serial = TRUE
    /\ EngineInit
    /\ policies \in {NewResolver(t) : t \in Tables}
    /\ resolved = <<>>

NextResolver == ResolveCall

SpecResolver == InitResolver /\ [][NextResolver]_vars

\* ------------------------------------------------------------ properties
HipFamily == {"hip error", "invalid device function"}
CudaFamily == {"cuda", "cublas", "cudnn"}
DmlFamily == {"directml"}

\* the text names one of the three hardware-stack families
CarriesSignature(message) == message \cap (HipFamily \cup CudaFamily \cup DmlFamily) # {}

\* the text names a family that counts on the device the engine is on
RecognizedOn(dev, message) ==
    \/ message \cap HipFamily # {}
    \/ dev = "cuda" /\ message \cap CudaFamily # {}
    \/ dev = "dml" /\ message \cap DmlFamily # {}

Done(c) == calls[c].pc \in {"returned", "raised"}
FirstFailed(c) == calls[c].fail # <<>>
Recovered(c) ==
    /\ calls[c].pc = "returned"
    /\ calls[c].err = <<>>
    /\ calls[c].result # <<>>
    /\ Len(calls[c].passes) = 2
    /\ calls[c].passes[2].ok
    /\ calls[c].passes[2].enc = "cpu"
RetryFailed(c) ==
    /\ calls[c].pc = "raised"
    /\ calls[c].err # <<>>
    /\ calls[c].result = <<>>
    /\ Len(calls[c].passes) = 2
    /\ ~calls[c].passes[2].ok
    /\ calls[c].passes[2].enc = "cpu"

\* C1 as stated, for a call that started on an accelerator: a finished call
\* whose first forward pass failed with a text that carries a signature of any
\* of the three families has left the engine on cpu and has run exactly one
\* retry, on cpu inputs, whose outcome is the call's outcome.
C1_AnySignatureRetriesOnce ==
    \A c \in Calls :
        (Done(c) /\ FirstFailed(c) /\ CarriesSignature(calls[c].fail[1])
           /\ calls[c].dev0 # "cpu")
            => (device = "cpu" /\ (Recovered(c) \/ RetryFailed(c)))

\* C1 as amended: when the first forward pass fails with a text recognized on
\* the device the engine is on (the invalid-kernel/HIP family on any device,
\* the CUDA family on cuda only, the DirectML family on dml only), the handler
\* sets the device to cpu; if moving the weights to cpu succeeds the inputs are
\* re-encoded for cpu and the pass is retried exactly once, the retry's outcome
\* being the call's outcome; if the move fails, that failure propagates and no
\* retry is made.
C1_RecognizedDowngradesAndRetriesOnce ==
    \A c \in Calls :
        /\ Len(calls[c].passes) <= 2
        /\ (FirstFailed(c) /\ RecognizedOn(calls[c].passes[1].device, calls[c].fail[1])
              /\ calls[c].pc # "caught")
            => /\ device = "cpu"
               /\ calls[c].branch # "none"
               /\ \/ calls[c].pc = "downgraded" /\ Len(calls[c].passes) = 1
                  \/ /\ calls[c].pc = "retry"
                     /\ Len(calls[c].passes) = 1
                     /\ calls[c].enc = "cpu"
                     /\ weightsOn = "cpu"
                  \/ Recovered(c)
                  \/ RetryFailed(c)
                  \/ /\ calls[c].pc = "raised"
                     /\ Len(calls[c].passes) = 1
                     /\ calls[c].err # <<>>
                     /\ calls[c].result = <<>>
                     /\ weightsOn = calls[c].passes[1].weights

\* C1 witness: a call on cuda failed with a CUDA-family text, was retried on
\* cpu and returned a result.
C1_Witness ==
    \E c \in Calls :
        /\ Recovered(c)
        /\ calls[c].dev0 = "cuda"
        /\ calls[c].fail = << {"cublas"} >>
        /\ ~calls[c].passes[1].ok

\* C2: a call whose forward pass failed with a text that is not recognized on
\* the engine's device raises that same failure, leaves the device and the dml
\* handle as they were at the start of the call, runs no second pass and
\* returns nothing; and a result is only ever returned from a forward pass that
\* succeeded.
C2_UnrecognizedPropagates ==
    \A c \in Calls :
        /\ (FirstFailed(c) /\ ~RecognizedOn(calls[c].passes[1].device, calls[c].fail[1])
              /\ calls[c].pc # "caught")
            => /\ calls[c].pc = "raised"
               /\ calls[c].err = calls[c].fail
               /\ device = calls[c].dev0
               /\ dmlHandle = calls[c].dml0
               /\ Len(calls[c].passes) = 1
               /\ calls[c].result = <<>>
        /\ calls[c].result # <<>>
            => /\ calls[c].pc = "returned"
               /\ calls[c].err = <<>>
               /\ calls[c].passes[Len(calls[c].passes)].ok
        /\ calls[c].pc = "returned" => calls[c].result # <<>>

\* C2 witness: a call on mps raised a failure whose text names the CUDA family,
\* which is not recognized on mps.
C2_Witness ==
    \E c \in Calls :
        /\ calls[c].pc = "raised"
        /\ calls[c].dev0 = "mps"
        /\ calls[c].fail = << {"cuda"} >>
        /\ calls[c].err = << {"cuda"} >>
        /\ device = "mps"

\* C3: once the engine is constructed its device only ever changes to cpu, and
\* an engine on cpu stays on cpu.
C3_DowngradeOneWay ==
    [][engine = "ready" => (device' = device \/ (device # "cpu" /\ device' = "cpu"))]_vars

\* C3 witness: a call that started on dml has downgraded the engine and
\* returned, and the engine is on cpu.
C3_Witness ==
    /\ engine = "ready"
    /\ device = "cpu"
    /\ \E c \in Calls :
          /\ calls[c].pc = "returned"
          /\ calls[c].dev0 = "dml"
          /\ calls[c].branch # "none"

\* C4: under concurrent calls no forward pass runs with its inputs on a device
\* other than the one the weights are on, and so no call fails because another
\* call downgraded the engine in between.
C4_ConcurrentCallsSelfContained ==
    \A c \in Calls :
        \A i \in DOMAIN calls[c].passes :
            calls[c].passes[i].enc = calls[c].passes[i].weights

\* the device names of the selector, as the caller spells them in lower case
NameCuda == {<<"c", "u", "d", "a">>, <<"g", "p", "u">>}
NameMps == {<<"m", "p", "s">>}
NameDml == {<<"d", "m", "l">>, <<"d", "i", "r", "e", "c", "t", "m", "l">>}
NameCpu == {<<"c", "p", "u">>}

\* the spelling s names a device of the set names, in any letter case
Names(s, names) ==
    \E n \in names :
        /\ Len(n) = Len(s)
        /\ \A i \in DOMAIN n :
              \/ s[i] = n[i]
              \/ \E k \in DOMAIN UpperChars : s[i] = UpperChars[k] /\ n[i] = LowerChars[k]

\* __init__ got as far as device selection
SelectionRan == engine # "new" /\ modelExists
SelectionRaised(exc) == engine = "failed" /\ selected = "none" /\ ctorError = exc

\* the first of cuda, mps, dml whose checks pass, else cpu
FirstUsable ==
    LET order == << "cuda", "mps", "dml" >>
        passes == << hw.cudaAvail /\ hw.cudaProbeOk,
                     hw.mpsAvail /\ hw.mpsProbeOk,
                     hw.dmlInstalled /\ hw.dmlDeviceOk >>
    IN  IF \E i \in 1..3 : passes[i]
        THEN order[CHOOSE i \in 1..3 : passes[i] /\ \A j \in 1..(i - 1) : ~passes[j]]
        ELSE "cpu"

\* C5 as stated: an explicit request for mps or dml ends in a hard error, and
\* never in cpu, both when the backend is unavailable and when it is available
\* but its probe fails.
C5_MpsDmlAlwaysHardError ==
    (SelectionRan /\ explicit.given
       /\ \/ Names(explicit.s, NameMps) /\ (~hw.mpsAvail \/ ~hw.mpsProbeOk)
          \/ Names(explicit.s, NameDml) /\ (~hw.dmlInstalled \/ ~hw.dmlDeviceOk))
        => SelectionRaised("RuntimeError") /\ selected # "cpu"

\* C5 as amended: an explicit request for mps or dml ends in a hard error
\* (RuntimeError) when the backend is unavailable, which for dml includes
\* torch_directml.device() failing; when mps is available but its allocation
\* probe fails, selection returns cpu instead of raising.
C5_MpsDmlHardErrorWhenUnavailable ==
    (SelectionRan /\ explicit.given)
        => /\ (Names(explicit.s, NameMps) /\ ~hw.mpsAvail) => SelectionRaised("RuntimeError")
           /\ (Names(explicit.s, NameDml) /\ (~hw.dmlInstalled \/ ~hw.dmlDeviceOk))
                 => SelectionRaised("RuntimeError")
           /\ (Names(explicit.s, NameMps) /\ hw.mpsAvail /\ ~hw.mpsProbeOk)
                 => selected = "cpu" /\ ctorError # "ValueError"

\* C5 witness: MPS was requested on a host without it and construction failed.
C5_Witness ==
    /\ explicit = Str(<<"M", "P", "S">>)
    /\ ~hw.mpsAvail
    /\ SelectionRaised("RuntimeError")

ValidResult(r) ==
    /\ r.score \in 0..100
    /\ r.should_block \in BOOLEAN
    /\ \E i \in DOMAIN _DEFAULT_POLICIES : r.age_policy = _DEFAULT_POLICIES[i]

CudaRequestFallsBack ==
    /\ SelectionRan
    /\ explicit.given
    /\ Names(explicit.s, NameCuda)
    /\ (~hw.cudaAvail \/ ~hw.cudaProbeOk)

\* C6: an explicit request for cuda or gpu on a host where cuda is unavailable
\* or fails its probe selects cpu without raising; the engine is constructed on
\* cpu, and on a working cpu every classify call returns a valid result.
C6_CudaRequestFallsBackToCpu ==
    CudaRequestFallsBack
        => /\ selected = "cpu"
           /\ engine = "ready" => (device = "cpu" /\ weightsOn = "cpu" /\ ~dmlHandle)
           /\ ~cpuFaulty
                 => /\ engine = "ready"
                    /\ \A c \in Calls :
                          /\ calls[c].pc # "raised"
                          /\ calls[c].fail = <<>>
                          /\ InFlight(c) => calls[c].enc = "cpu"
                          /\ calls[c].pc = "returned"
                                => /\ calls[c].result # <<>>
                                   /\ ValidResult(calls[c].result[1])

\* C6 witness: cuda was requested, reported available, failed its probe, and a
\* classify call on the cpu engine has returned.
C6_Witness ==
    /\ explicit = Str(<<"C", "U", "D", "A">>)
    /\ hw.cudaAvail
    /\ ~hw.cudaProbeOk
    /\ device = "cpu"
    /\ \E c \in Calls : calls[c].pc = "returned" /\ calls[c].result # <<>>

\* C7: with no device given, selection never raises and returns the first of
\* cuda, mps, dml whose checks pass, and cpu when none does.
C7_AutoDetectFirstUsable ==
    (SelectionRan /\ explicit = None)
        => /\ selected # "none"
           /\ ctorError \notin {"ValueError", "FileNotFoundError"}
           /\ selected = FirstUsable

\* C7 witness: nothing was requested, cuda was reported available but failed
\* its probe, and mps was selected.
C7_Witness ==
    /\ explicit = None
    /\ SelectionRan
    /\ hw.cudaAvail
    /\ ~hw.cudaProbeOk
    /\ selected = "mps"

\* what a request that names a device of the set may select
MappedSelection ==
    /\ Names(explicit.s, NameCuda)
          => selected \in {"cuda", "cpu"} /\ (selected = "cuda" <=> hw.cudaAvail /\ hw.cudaProbeOk)
    /\ Names(explicit.s, NameMps)
          => \/ selected = "mps" /\ hw.mpsAvail /\ hw.mpsProbeOk
             \/ selected = "cpu" /\ hw.mpsAvail /\ ~hw.mpsProbeOk
             \/ SelectionRaised("RuntimeError") /\ ~hw.mpsAvail
    /\ Names(explicit.s, NameDml)
          => \/ selected = "dml" /\ hw.dmlInstalled /\ hw.dmlDeviceOk
             \/ SelectionRaised("RuntimeError") /\ ~(hw.dmlInstalled /\ hw.dmlDeviceOk)
    /\ Names(explicit.s, NameCpu) => selected = "cpu"

InTheSet(s) == Names(s, NameCuda \cup NameMps \cup NameDml \cup NameCpu)

\* C8 as stated: a given device string is matched in any letter case against
\* cuda/gpu, dml/directml, mps and cpu, and every given value outside the set
\* is rejected with the unsupported-device error (ValueError).
C8_EveryOtherValueRejected ==
    (SelectionRan /\ explicit.given)
        => /\ InTheSet(explicit.s) => MappedSelection
           /\ ~InTheSet(explicit.s) => SelectionRaised("ValueError")

\* C8 as amended: the same for every non-empty value; the empty string is
\* treated as no device given, that is as auto-detect.
C8_EveryOtherNonEmptyValueRejected ==
    (SelectionRan /\ explicit.given)
        => /\ InTheSet(explicit.s) => MappedSelection
           /\ (~InTheSet(explicit.s) /\ explicit.s # <<>>) => SelectionRaised("ValueError")
           /\ explicit.s = <<>> => selected = FirstUsable

\* C8 witness: "tpu" was requested and construction failed with ValueError.
C8_Witness ==
    /\ explicit = Str(<<"t", "p", "u">>)
    /\ SelectionRaised("ValueError")

\* ---- resolver
Numeral(s) ==
    LET body == IF Len(s) > 0 /\ s[1] \in {"-", "+"} THEN SubSeq(s, 2, Len(s)) ELSE s
    IN  /\ body # <<>>
        /\ \A i \in DOMAIN body : body[i] \in {"0", "1", "2", "3", "4", "5", "6", "7", "8", "9"}

NonNumeric(age) == age.kind = "obj" \/ (age.kind = "str" /\ ~Numeral(age.s))

Negative(age) ==
    \/ age.kind \in {"int", "float"} /\ age.n < 0
    \/ /\ age.kind = "str"
       /\ Numeral(age.s)
       /\ age.s[1] = "-"
       /\ \E i \in 2..Len(age.s) : age.s[i] # "0"

Range(t) == {t[i] : i \in DOMAIN t}

Strictest(t, p) ==
    /\ p \in Range(t)
    /\ \A q \in Range(t) : p.max_age <= q.max_age /\ p.threshold <= q.threshold

\* C9: for an age that is None, non-numeric or negative the resolver returns
\* the strictest policy of its table (lowest max_age, lowest threshold), which
\* in a table of more than one policy is not the catch-all.
C9_FailSafeStrictest ==
    \A i \in DOMAIN resolved :
        LET age == resolved[i].age
            policy == resolved[i].policy
        IN  (age.kind = "none" \/ NonNumeric(age) \/ Negative(age))
                => /\ Strictest(policies, policy)
                   /\ Len(policies) > 1 => policy # policies[Len(policies)]

\* C9 witness: the default table resolved the age -1 to its first policy.
C9_Witness ==
    /\ policies = _DEFAULT_POLICIES
    /\ resolved # <<>>
    /\ resolved[1].age = AgeInt(-1)
    /\ resolved[1].policy.max_age = 12

\* C10: for an integer age a >= 0 the resolver returns one policy of its
\* table, the one with the smallest bound >= a, and the last policy when no
\* bound is >= a.
C10_SmallestBoundAtLeastAge ==
    \A i \in DOMAIN resolved :
        LET age == resolved[i].age
            policy == resolved[i].policy
            fitting == {q \in Range(policies) : q.max_age >= age.n}
        IN  (age.kind = "int" /\ age.n >= 0)
                => /\ policy \in Range(policies)
                   /\ fitting # {}
                         => /\ policy \in fitting
                            /\ \A q \in fitting : policy.max_age <= q.max_age
                            /\ \A q \in fitting : q.max_age = policy.max_age => q = policy
                   /\ fitting = {} => policy = policies[Len(policies)]

\* C10 witness: a table whose last bound is 12 resolved the age 13 to its last
\* policy.
C10_Witness ==
    /\ resolved # <<>>
    /\ resolved[1].age = AgeInt(13)
    /\ Len(policies) = 2
    /\ policies[2].max_age = 12
    /\ resolved[1].policy = policies[2]

\* ---- decision
\* the threshold, in hundredths, the default table gives an age: 0.25 up to 12
\* and for a missing age, 0.35 up to 17, 0.55 above
ThresholdFor(age) ==
    IF age.kind = "none" \/ age.n <= 12 THEN 25
    ELSE IF age.n <= 17 THEN 35
    ELSE 55

\* C11: a returned result blocks exactly when its score is at or above the
\* threshold of the policy resolved for the age of the call, and carries that
\* policy; in particular age 10 with score 0.30 blocks, age 16 with score 0.30
\* does not, and age 40 with score 0.60 does.
C11_BlocksAtOrAboveThreshold ==
    \A c \in Calls :
        \A i \in DOMAIN calls[c].result :
            LET r == calls[c].result[i] IN
            /\ r.age_policy \in Range(_DEFAULT_POLICIES)
            /\ r.age_policy.threshold = ThresholdFor(r.age)
            /\ r.should_block <=> r.score >= ThresholdFor(r.age)
            /\ (r.age = AgeInt(10) /\ r.score = 30) => r.should_block
            /\ (r.age = AgeInt(16) /\ r.score = 30) => ~r.should_block
            /\ (r.age = AgeInt(40) /\ r.score = 60) => r.should_block

\* C11 witness: a call for age 10 returned the score 0.25, equal to the
\* threshold, and blocks.
C11_Witness ==
    \E c \in Calls :
        /\ calls[c].pc = "returned"
        /\ calls[c].result # <<>>
        /\ calls[c].result[1].age = AgeInt(10)
        /\ calls[c].result[1].score = 25
        /\ calls[c].result[1].should_block

\* an age that is a number, in halves, so that ints and floats compare
Numeric(age) == age.kind \in {"int", "float"}
Halves(age) == IF age.kind = "int" THEN 2 * age.n ELSE age.n

\* C12: with the default table, of two resolve calls with numeric ages
\* age1 <= age2 the first resolves to a threshold that is at most the second's.
C12_ThresholdMonotoneInAge ==
    (policies = _DEFAULT_POLICIES /\ Len(resolved) = 2)
        => \A i, j \in DOMAIN resolved :
              (Numeric(resolved[i].age) /\ Numeric(resolved[j].age)
                 /\ Halves(resolved[i].age) <= Halves(resolved[j].age))
                  => resolved[i].policy.threshold <= resolved[j].policy.threshold

\* C12 witness: the default table resolved the age 12 to the threshold 0.25
\* and then the age 13 to the threshold 0.35.
C12_Witness ==
    /\ policies = _DEFAULT_POLICIES
    /\ Len(resolved) = 2
    /\ resolved[1].age = AgeInt(12)
    /\ resolved[1].policy.threshold = 25
    /\ resolved[2].age = AgeInt(13)
    /\ resolved[2].policy.threshold = 35

\* C13: when the model directory does not exist, construction raises
\* FileNotFoundError before anything else happens: no device is selected, no
\* weights are loaded, self.max_length, self.device and self._dml_device are
\* never set, and no classify call ever runs on the object.
C13_MissingModelRaisesFirst ==
    (~modelExists /\ engine # "new")
        => /\ engine = "failed"
           /\ ctorError = "FileNotFoundError"
           /\ selected = "none"
           /\ weightsOn = "none"
           /\ max_length = 0
           /\ device = "none"
           /\ ~dmlHandle
           /\ placement = <<>>
           /\ \A c \in Calls : calls[c] = IdleCall

\* C13 witness: construction has run on a host with a usable cuda device whose
\* model directory is missing, and has raised FileNotFoundError.
C13_Witness ==
    /\ ~modelExists
    /\ hw.cudaAvail /\ hw.cudaProbeOk
    /\ explicit = None
    /\ engine = "failed"
    /\ ctorError = "FileNotFoundError"

C15_LengthLeavesRoomForSpecialTokens ==
    (engine = "ready" /\ modelCfg.capacity.isInt /\ modelCfg.capacity.v > 2)
        => max_length <= modelCfg.capacity.v - 2

\* no classify call is in progress
Quiescent == \A c \in Calls : calls[c].pc \in {"idle", "returned", "raised", "unavailable"}

\* C16: after construction and after any classify call, whatever downgrade
\* path was taken at weight placement or at the forward pass, a dml handle
\* that is set implies that the device is dml.
C16_HandleOnlyOnDml ==
    (engine = "ready" /\ Quiescent) => (dmlHandle => device = "dml")

\* the two except blocks treat the text alike on the device dev
SameVerdict(dev, message) ==
    (RecognizeAtPlacement(dev, message) = "none")
        <=> (RecognizeAtInference(dev, message) = "none")

\* the step of the except block of __init__
PlacementHandled == engine = "placing" /\ engine' # "placing"

\* the step of the except block of _score_text in call c
InferenceHandled(c) == calls[c].pc = "caught" /\ calls'[c].pc # "caught"

\* C17: the two except blocks apply one idiom. For every device and failure
\* text they are on, the failure is recoverable at weight placement if and only
\* if it is recoverable at the forward pass (the invalid-kernel/HIP family on
\* any device, the CUDA family on cuda, the DirectML family on dml). In both
\* places a recoverable failure sets the device to cpu and starts one retry,
\* which begins by moving the weights to cpu: at construction that move is the
\* retried placement, at inference it is followed by one more forward pass on
\* re-encoded inputs, and in both places a failure of the retry propagates.
\* Any other failure is re-raised with the device unchanged.
C17_SameIdiomAtPlacementAndInference ==
    [][/\ PlacementHandled
            => /\ SameVerdict(device, placement[1])
               /\ IF RecognizedOn(device, placement[1])
                  THEN /\ device' = "cpu"
                       /\ ctorBranch' # "none"
                       /\ \/ engine' = "ready" /\ weightsOn' = "cpu"
                          \/ /\ engine' = "failed"
                             /\ ctorError' = "RuntimeError"
                             /\ cpuFaulty
                  ELSE /\ engine' = "failed"
                       /\ ctorError' = "RuntimeError"
                       /\ device' = device
                       /\ weightsOn' = weightsOn
                       /\ ctorBranch' = "none"
       /\ \A c \in Calls :
             /\ InferenceHandled(c)
                   => /\ SameVerdict(device, calls[c].fail[1])
                      /\ IF RecognizedOn(device, calls[c].fail[1])
                         THEN /\ device' = "cpu"
                              /\ calls'[c].pc = "downgraded"
                              /\ calls'[c].branch # "none"
                         ELSE /\ device' = device
                              /\ calls'[c].pc = "raised"
                              /\ calls'[c].err = calls[c].fail
             /\ (calls[c].pc = "downgraded" /\ calls'[c].pc # "downgraded")
                   => \/ /\ calls'[c].pc = "retry"
                         /\ weightsOn' = "cpu"
                         /\ calls'[c].enc = "cpu"
                      \/ calls'[c].pc = "raised" /\ cpuFaulty
             /\ (calls[c].pc = "retry" /\ calls'[c].pc # "retry")
                   => /\ calls'[c].pc \in {"returned", "raised"}
                      /\ Len(calls'[c].passes) = 2
                      /\ Len(calls[c].passes) = 1]_vars

\* C17 witness: an engine whose placement failed with an invalid-kernel text
\* was constructed on cpu, and a call on it whose forward pass failed with the
\* same kind of text was retried and returned.
C17_Witness ==
    /\ engine = "ready"
    /\ ctorBranch = "hip"
    /\ selected = "cuda"
    /\ device = "cpu"
    /\ \E c \in Calls :
          /\ Recovered(c)
          /\ calls[c].branch = "hip"
          /\ calls[c].fail = << {"invalid device function"} >>

\* C18: every forward pass runs under the reduced-precision mode exactly when
\* the device is cuda at the time of the pass; the pass retried after a
\* downgrade from cuda to cpu runs with no reduced-precision mode in effect.
C18_ReducedPrecisionOnlyOnCuda ==
    \A c \in Calls :
        \A i \in DOMAIN calls[c].passes :
            calls[c].passes[i].cast <=> calls[c].passes[i].device = "cuda"

\* C19: in sequential use, whenever no classify call is in progress the
\* device recorded on the engine is the device the weights are on, and every
\* forward pass run had its inputs on the device of the weights, also when the
\* move of the weights to cpu during a downgrade fails.
C19_DeviceMatchesWeights ==
    /\ (engine = "ready" /\ Quiescent) => device = weightsOn
    /\ \A c \in Calls :
          \A i \in DOMAIN calls[c].passes :
              calls[c].passes[i].enc = calls[c].passes[i].weights

====
